---- MODULE Spec2Model ----
(***************************************************************************)
(* Model of the go-saga library: the saga engine (saga.go), the Step       *)
(* abstraction, the StateManager interface and its in-memory               *)
(* implementation (in_memory_state_manager.go).                            *)
(*                                                                         *)
(* Spec      : goroutines calling Execute on one saga over one store.      *)
(* SpecStore : goroutines calling SetStepState / StepState on one          *)
(*             InMemoryStateManager.                                       *)
(***************************************************************************)
EXTENDS Integers, Sequences, FiniteSets, TLC

\* ---------------------------------------------------------------- bounds
MaxSteps == 3        \* largest number of steps added to the saga
MaxCalls == 3        \* Execute calls made in one behaviour
NumThreads == 2      \* goroutines calling Execute
NumClients == 2      \* goroutines using the in-memory store directly
MaxStoreOps == 3     \* store operations made in one behaviour of SpecStore
MaxKeys == 2         \* step indices used in SpecStore
MaxLiveSteps == 1    \* largest number of steps in the behaviours checked for liveness

Threads == 1..NumThreads
Clients == 1..NumClients
Keys == 0..(MaxKeys - 1)

VARIABLES
    steps,               \* len(s.steps); a step is identified by its index
    currentStep,         \* s.currentStep
    mu,                  \* s.mu: 0 when unlocked, else the goroutine holding it
    stateManager,        \* s.stateManager: "memory" or "custom"
    state,               \* the store's map[int]bool
    pc,                  \* position of each goroutine inside Execute
    err,                 \* Execute's local err (the forward error), per goroutine
    compI,               \* Compensate's local i, per goroutine
    compensationErrors,  \* Compensate's local slice, per goroutine
    errComp,             \* Execute's local errComp, per goroutine
    owner,               \* the goroutine whose Execute call last took s.mu
    result,              \* value returned by that call, Pending until it returns
    log,                 \* calls made to collaborators by that call
    seen,                \* priorFail as it was when that call began
    applied,             \* applied[i]: forward effect of step i is in place
    succeeded,           \* succeeded[i]: times the forward action of step i succeeded
    rolledBack,          \* rolledBack[i]: times step i was compensated for a later step's failure
    priorFail,           \* indices k at which some run failed after running 0..k-1
    calls,               \* number of Execute calls made so far
    smu,                 \* InMemoryStateManager.mu (RWMutex)
    spc,                 \* position of each store client
    sarg,                \* arguments of each store client's current call
    sret,                \* value each store client last read, and after how many writes
    setHist,             \* SetStepState writes performed, oldest first
    sops,                \* number of store calls made so far
    direct,              \* steps compensated by each goroutine's direct Compensate call
    compRet              \* value returned by the last direct Compensate call

locals == <<err, compI, compensationErrors, errComp>>
effects == <<applied, succeeded, rolledBack>>
history == <<owner, result, log, seen, effects, priorFail, calls>>
sagaVars == <<steps, currentStep, mu, stateManager, pc, locals, history>>
storeVars == <<smu, spc, sarg, sret, setHist, sops>>
publicVars == <<direct, compRet>>
vars == <<sagaVars, state, storeVars, publicVars>>

\* ------------------------------------------------------------ error values
Nil == "<nil>"           \* a nil error
NoCall == "-"            \* no Execute call has returned yet
Pending == "..."         \* an Execute call is in flight

\* Step.Name(): names as the tests give them, "step1", "step2", ...
Name(i) == "step" \o ToString(i + 1)

\* errors returned by the caller-supplied closures and stores of the tests
ForwardError(i) == Name(i) \o " error"
CompensateError(i) == Name(i) \o " compensate error"
StepStateErr == "step state error"
SetStepStateErr == "set step state error"

\* errors.Wrapf(err, msg): "<msg>: <err>"
Wrapf(e, msg) == msg \o ": " \o e

\* fmt %v of a []error: "[e1 e2 ...]"
RECURSIVE JoinErrors(_)
JoinErrors(es) ==
    IF es = <<>> THEN ""
    ELSE IF Len(es) = 1 THEN es[1]
    ELSE es[1] \o " " \o JoinErrors(Tail(es))

FormatErrors(es) == "[" \o JoinErrors(es) \o "]"

\* ------------------------------------------------------------- the store
\* variant: the store forgets what was recorded
StepStateForgets(m, stepIndex) == FALSE

\* InMemoryStateManager.StepState: the map lookup with its "exists" test
StepState(m, stepIndex) ==
    IF stepIndex \notin DOMAIN m THEN FALSE ELSE m[stepIndex]

\* variant: a record that exists is not overwritten
SetStepStateKeepsFirst(m, stepIndex, success) ==
    [j \in (DOMAIN m) \cup {stepIndex} |-> IF j \in DOMAIN m THEN m[j] ELSE success]

\* variant: the write is lost
SetStepStateDrops(m, stepIndex, success) == m

\* InMemoryStateManager.SetStepState: m.state[stepIndex] = success
SetStepState(m, stepIndex, success) ==
    [j \in (DOMAIN m) \cup {stepIndex} |-> IF j = stepIndex THEN success ELSE m[j]]

EmptyMap == [j \in {} |-> FALSE]

\* outcomes a store call can have: the in-memory store never fails,
\* a custom StateManager may return an error from either method
StoreOutcomes == IF stateManager = "memory" THEN {TRUE} ELSE {TRUE, FALSE}

\* ------------------------------------------------------------ log events
Event(op, i, ok) == [op |-> op, idx |-> i, ok |-> ok]
Logged(e) == log' = Append(log, e)

\* ------------------------------------------------------------------ Init
NoLocals ==
    /\ err = [t \in Threads |-> Nil]
    /\ compI = [t \in Threads |-> 0]
    /\ compensationErrors = [t \in Threads |-> <<>>]
    /\ errComp = [t \in Threads |-> Nil]

StoreIdle ==
    /\ smu = [writer |-> 0, readers |-> {}]
    /\ spc = [c \in Clients |-> "idle"]
    /\ sarg = [c \in Clients |-> [idx |-> 0, val |-> FALSE]]
    /\ sret = [c \in Clients |-> [val |-> FALSE, at |-> 0]]
    /\ setHist = <<>>
    /\ sops = 0

NoDirect ==
    /\ direct = [t \in Threads |-> <<>>]
    /\ compRet = NoCall

\* New(options...) followed by AddStep calls; nobody has called Execute yet
Init ==
    /\ steps \in 0..MaxSteps
    /\ currentStep = 0
    /\ mu = 0
    /\ stateManager \in {"memory", "custom"}
    /\ state = EmptyMap
    /\ pc = [t \in Threads |-> "idle"]
    /\ NoLocals
    /\ owner = 0
    /\ result = NoCall
    /\ log = <<>>
    /\ seen = {}
    /\ applied = [i \in 0..(steps - 1) |-> FALSE]
    /\ succeeded = [i \in 0..(steps - 1) |-> 0]
    /\ rolledBack = [i \in 0..(steps - 1) |-> 0]
    /\ priorFail = {}
    /\ calls = 0
    /\ StoreIdle
    /\ NoDirect

\* ------------------------------------------------------------- Execute
\* variant: Execute does not wait for the lock
MuFreeAlways == TRUE

\* s.mu is free
MuFree == mu = 0

\* variant: Execute returns without releasing s.mu
ReturnKeepsLock(t, e) ==
    /\ result' = e
    /\ pc' = [pc EXCEPT ![t] = "idle"]
    /\ mu' = mu
    /\ err' = [err EXCEPT ![t] = Nil]
    /\ compI' = [compI EXCEPT ![t] = 0]
    /\ compensationErrors' = [compensationErrors EXCEPT ![t] = <<>>]
    /\ errComp' = [errComp EXCEPT ![t] = Nil]

\* return e from Execute: the deferred s.mu.Unlock() runs, the locals are gone
Return(t, e) ==
    /\ result' = e
    /\ pc' = [pc EXCEPT ![t] = "idle"]
    /\ mu' = 0
    /\ err' = [err EXCEPT ![t] = Nil]
    /\ compI' = [compI EXCEPT ![t] = 0]
    /\ compensationErrors' = [compensationErrors EXCEPT ![t] = <<>>]
    /\ errComp' = [errComp EXCEPT ![t] = Nil]

\* a goroutine calls s.Execute(ctx)
ExecuteCall(t) ==
    /\ pc[t] = "idle"
    /\ calls < MaxCalls
    /\ calls' = calls + 1
    /\ pc' = [pc EXCEPT ![t] = "lock"]
    /\ UNCHANGED <<steps, currentStep, mu, stateManager, state, locals, owner,
                   result, log, seen, effects, priorFail, storeVars, publicVars>>

\* s.mu.Lock(); defer s.mu.Unlock(); s.currentStep = 0
Lock(t) ==
    /\ pc[t] = "lock"
    /\ MuFree
    /\ mu' = t
    /\ currentStep' = 0
    /\ pc' = [pc EXCEPT ![t] = "loop"]
    /\ owner' = t
    /\ result' = Pending
    /\ log' = <<>>
    /\ seen' = priorFail
    /\ UNCHANGED <<steps, stateManager, state, locals, effects, priorFail, calls,
                   storeVars, publicVars>>

\* variant: a failed completion query is taken as "not completed"
LoopHeadIgnoresError(t) ==
    /\ pc[t] = "loop"
    /\ IF currentStep < steps
       THEN \E ok \in StoreOutcomes :
              /\ Logged(Event("get", currentStep, ok))
              /\ IF ok /\ StepState(state, currentStep)
                 THEN /\ currentStep' = currentStep + 1
                      /\ UNCHANGED <<pc, result, mu, locals>>
                 ELSE /\ pc' = [pc EXCEPT ![t] = "forward"]
                      /\ UNCHANGED <<currentStep, result, mu, locals>>
       ELSE /\ Return(t, Nil)
            /\ UNCHANGED <<currentStep, log>>
    /\ UNCHANGED <<steps, stateManager, state, owner, seen, effects, priorFail,
                   calls, storeVars, publicVars>>

\* the loop test, the completion query and the skip of a completed step
LoopHead(t) ==
    /\ pc[t] = "loop"
    /\ IF currentStep < steps
       THEN \E ok \in StoreOutcomes :
              /\ Logged(Event("get", currentStep, ok))
              /\ IF ~ok
                 THEN /\ Return(t, Wrapf(StepStateErr,
                                     "retrieving state for step " \o Name(currentStep)))
                      /\ UNCHANGED currentStep
                 ELSE IF StepState(state, currentStep)
                 THEN /\ currentStep' = currentStep + 1
                      /\ UNCHANGED <<pc, result, mu, locals>>
                 ELSE /\ pc' = [pc EXCEPT ![t] = "forward"]
                      /\ UNCHANGED <<currentStep, result, mu, locals>>
       ELSE /\ Return(t, Nil)
            /\ UNCHANGED <<currentStep, log>>
    /\ UNCHANGED <<steps, stateManager, state, owner, seen, effects, priorFail,
                   calls, storeVars, publicVars>>

\* the run so far executed the forward action of every step 0..k-1 with success
RanPrefix(k) ==
    \A i \in 0..(k - 1) : \E n \in 1..Len(log) : log[n] = Event("fwd", i, TRUE)

\* variant: a failed forward action is tried again
ForwardRetries(t) ==
    /\ pc[t] = "forward"
    /\ \E ok \in BOOLEAN :
         /\ Logged(Event("fwd", currentStep, ok))
         /\ IF ok
            THEN /\ applied' = [applied EXCEPT ![currentStep] = TRUE]
                 /\ succeeded' = [succeeded EXCEPT ![currentStep] = @ + 1]
                 /\ pc' = [pc EXCEPT ![t] = "markDone"]
                 /\ UNCHANGED err
            ELSE /\ err' = [err EXCEPT ![t] = ForwardError(currentStep)]
                 /\ UNCHANGED <<pc, applied, succeeded>>
    /\ UNCHANGED <<steps, currentStep, mu, stateManager, state, compI,
                   compensationErrors, errComp, owner, result, seen, rolledBack,
                   priorFail, calls, storeVars, publicVars>>

\* step.ExecuteForward(ctx): the caller's closure succeeds or fails
Forward(t) ==
    /\ pc[t] = "forward"
    /\ \E ok \in BOOLEAN :
         /\ Logged(Event("fwd", currentStep, ok))
         /\ IF ok
            THEN /\ applied' = [applied EXCEPT ![currentStep] = TRUE]
                 /\ succeeded' = [succeeded EXCEPT ![currentStep] = @ + 1]
                 /\ pc' = [pc EXCEPT ![t] = "markDone"]
                 /\ UNCHANGED <<err, priorFail>>
            ELSE /\ err' = [err EXCEPT ![t] = ForwardError(currentStep)]
                 /\ pc' = [pc EXCEPT ![t] = "markFailed"]
                 /\ priorFail' = IF RanPrefix(currentStep)
                                 THEN priorFail \cup {currentStep}
                                 ELSE priorFail
                 /\ UNCHANGED <<applied, succeeded>>
    /\ UNCHANGED <<steps, currentStep, mu, stateManager, state, compI,
                   compensationErrors, errComp, owner, result, seen, rolledBack,
                   calls, storeVars, publicVars>>

\* variant: compensation starts below the failing step
CompensateFromPrior == currentStep - 1

\* Compensate starts from the current step: i := s.currentStep
CompensateFrom == currentStep

\* variant: compensation runs even when the failure record was not written
MarkFailedIgnoresError(t) ==
    /\ pc[t] = "markFailed"
    /\ \E ok \in StoreOutcomes :
         /\ Logged(Event("setFalse", currentStep, ok))
         /\ state' = IF ok THEN SetStepState(state, currentStep, FALSE) ELSE state
         /\ compI' = [compI EXCEPT ![t] = CompensateFrom]
         /\ compensationErrors' = [compensationErrors EXCEPT ![t] = <<>>]
         /\ pc' = [pc EXCEPT ![t] = "compensate"]
         /\ UNCHANGED <<result, mu, err, errComp>>
    /\ UNCHANGED <<steps, currentStep, stateManager, owner, seen, effects,
                   priorFail, calls, storeVars, publicVars>>

\* variant: compensation starts without recording the failure
MarkFailedNoRecord(t) ==
    /\ pc[t] = "markFailed"
    /\ compI' = [compI EXCEPT ![t] = CompensateFrom]
    /\ compensationErrors' = [compensationErrors EXCEPT ![t] = <<>>]
    /\ pc' = [pc EXCEPT ![t] = "compensate"]
    /\ UNCHANGED <<steps, currentStep, mu, stateManager, state, err, errComp,
                   history, storeVars, publicVars>>

\* forward failed: s.stateManager.SetStepState(s.currentStep, false),
\* then enter s.Compensate(ctx)
MarkFailed(t) ==
    /\ pc[t] = "markFailed"
    /\ \E ok \in StoreOutcomes :
         /\ Logged(Event("setFalse", currentStep, ok))
         /\ IF ~ok
            THEN /\ Return(t, Wrapf(SetStepStateErr,
                                "setting state for step " \o Name(currentStep)))
                 /\ UNCHANGED state
            ELSE /\ state' = SetStepState(state, currentStep, FALSE)
                 /\ compI' = [compI EXCEPT ![t] = CompensateFrom]
                 /\ compensationErrors' = [compensationErrors EXCEPT ![t] = <<>>]
                 /\ pc' = [pc EXCEPT ![t] = "compensate"]
                 /\ UNCHANGED <<result, mu, err, errComp>>
    /\ UNCHANGED <<steps, currentStep, stateManager, owner, seen, effects,
                   priorFail, calls, storeVars, publicVars>>

\* variant: success is recorded as not completed
SuccessRecordFalse == FALSE

\* the record written after a successful forward action
SuccessRecord == TRUE

\* variant: a successful forward action is not recorded
MarkDoneSkipsRecord(t) ==
    /\ pc[t] = "markDone"
    /\ \E ok \in StoreOutcomes :
         /\ Logged(Event("setTrue", currentStep, ok))
         /\ currentStep' = currentStep + 1
         /\ pc' = [pc EXCEPT ![t] = "loop"]
    /\ UNCHANGED <<steps, mu, stateManager, state, locals, owner, result, seen,
                   effects, priorFail, calls, storeVars, publicVars>>

\* forward succeeded: s.stateManager.SetStepState(s.currentStep, true),
\* then s.currentStep++
MarkDone(t) ==
    /\ pc[t] = "markDone"
    /\ \E ok \in StoreOutcomes :
         /\ Logged(Event("setTrue", currentStep, ok))
         /\ IF ~ok
            THEN /\ Return(t, Wrapf(SetStepStateErr,
                                "setting state for step " \o Name(currentStep)))
                 /\ UNCHANGED <<state, currentStep>>
            ELSE /\ state' = SetStepState(state, currentStep, SuccessRecord)
                 /\ currentStep' = currentStep + 1
                 /\ pc' = [pc EXCEPT ![t] = "loop"]
                 /\ UNCHANGED <<result, mu, locals>>
    /\ UNCHANGED <<steps, stateManager, owner, seen, effects, priorFail, calls,
                   storeVars, publicVars>>

\* ----------------------------------------------------------- Compensate
\* variant: the loop stops at the first compensation failure
NextCompensateShortCircuit(i, ok) == IF ok THEN i - 1 ELSE 0 - 1

\* the index Compensate's loop visits after step i: i--
NextCompensate(i, ok) == i - 1

\* variant: compensating a step also resets its completion record
CompensateStepResetsRecord(t) ==
    /\ pc[t] = "compensate"
    /\ compI[t] >= 0
    /\ \E ok \in BOOLEAN :
         /\ Logged(Event("comp", compI[t], ok))
         /\ state' = SetStepState(state, compI[t], FALSE)
         /\ applied' = [applied EXCEPT ![compI[t]] = FALSE]
         /\ rolledBack' = IF compI[t] # currentStep
                          THEN [rolledBack EXCEPT ![compI[t]] = @ + 1]
                          ELSE rolledBack
         /\ compensationErrors' =
              [compensationErrors EXCEPT
                 ![t] = IF ok THEN @ ELSE Append(@, CompensateError(compI[t]))]
         /\ compI' = [compI EXCEPT ![t] = compI[t] - 1]
    /\ UNCHANGED <<steps, currentStep, mu, stateManager, pc, err, errComp,
                   owner, result, seen, succeeded, priorFail, calls, storeVars, publicVars>>

\* one iteration of Compensate's loop: step.ExecuteCompensate(ctx)
CompensateStep(t) ==
    /\ pc[t] = "compensate"
    /\ compI[t] >= 0
    /\ \E ok \in BOOLEAN :
         /\ Logged(Event("comp", compI[t], ok))
         /\ applied' = [applied EXCEPT ![compI[t]] = FALSE]
         /\ rolledBack' = IF compI[t] # currentStep
                          THEN [rolledBack EXCEPT ![compI[t]] = @ + 1]
                          ELSE rolledBack
         /\ compensationErrors' =
              [compensationErrors EXCEPT
                 ![t] = IF ok THEN @ ELSE Append(@, CompensateError(compI[t]))]
         /\ compI' = [compI EXCEPT ![t] = NextCompensate(compI[t], ok)]
    /\ UNCHANGED <<steps, currentStep, mu, stateManager, state, pc, err, errComp,
                   owner, result, seen, succeeded, priorFail, calls, storeVars, publicVars>>

\* the value Compensate returns
CompensateResult(es) ==
    IF Len(es) > 0
    THEN "compensation failed with errors: " \o FormatErrors(es)
    ELSE Nil

\* Compensate's loop is over: it returns to Execute, which keeps the value
\* in errComp
CompensateReturn(t) ==
    /\ pc[t] = "compensate"
    /\ compI[t] < 0
    /\ errComp' = [errComp EXCEPT ![t] = CompensateResult(compensationErrors[t])]
    /\ pc' = [pc EXCEPT ![t] = "compensated"]
    /\ UNCHANGED <<steps, currentStep, mu, stateManager, state, err, compI,
                   compensationErrors, history, storeVars, publicVars>>

\* variant: the compensation failure is dropped from the returned error
ExecuteErrorForwardOnly(name, e, ec) == Wrapf(e, "executing step " \o name)

\* the value Execute returns after a forward failure and a compensation pass
ExecuteError(name, e, ec) ==
    IF ec # Nil
    THEN Wrapf(ec, "compensating after failure in step " \o name \o ": " \o e)
    ELSE Wrapf(e, "executing step " \o name)

\* back in Execute after Compensate: return the wrapped error
ExecuteFailed(t) ==
    /\ pc[t] = "compensated"
    /\ Return(t, ExecuteError(Name(currentStep), err[t], errComp[t]))
    /\ UNCHANGED <<steps, currentStep, stateManager, state, owner, log, seen,
                   effects, priorFail, calls, storeVars, publicVars>>

\* New(WithStateManager(store)) followed by the same AddStep calls:
\* a new saga instance over the same steps and the same store
NewSaga ==
    /\ \A t \in Threads : pc[t] = "idle"
    /\ currentStep # 0
    /\ currentStep' = 0
    /\ mu' = 0
    /\ UNCHANGED <<steps, stateManager, state, pc, locals, history, storeVars, publicVars>>

Next ==
    \/ \E t \in Threads : ExecuteCall(t)
    \/ \E t \in Threads : Lock(t)
    \/ \E t \in Threads : LoopHead(t)
    \/ \E t \in Threads : Forward(t)
    \/ \E t \in Threads : MarkFailed(t)
    \/ \E t \in Threads : MarkDone(t)
    \/ \E t \in Threads : CompensateStep(t)
    \/ \E t \in Threads : CompensateReturn(t)
    \/ \E t \in Threads : ExecuteFailed(t)
    \/ NewSaga

Spec == Init /\ [][Next]_vars

\* every store call and every step action returns, so a goroutine inside
\* Execute keeps running; sync.Mutex hands the lock to a waiting goroutine
\* (starvation mode), so a caller that finds the lock free again and again
\* gets it
Fairness ==
    \A t \in Threads :
        /\ SF_vars(Lock(t))
        /\ WF_vars(LoopHead(t))
        /\ WF_vars(Forward(t))
        /\ WF_vars(MarkFailed(t))
        /\ WF_vars(MarkDone(t))
        /\ WF_vars(CompensateStep(t))
        /\ WF_vars(CompensateReturn(t))
        /\ WF_vars(ExecuteFailed(t))

\* the sagas whose calls are followed to their return
InitLive == Init /\ steps <= MaxLiveSteps

SpecLive == InitLive /\ [][Next]_vars /\ Fairness

TypeOK == \A t \in Threads : pc[t] \in {"idle", "lock", "loop", "forward", "markFailed",
                                        "markDone", "compensate", "compensated"}

\* ------------------------------------------ Compensate, called by the client
\* Compensate is a method of the Saga interface: a goroutine calls it without
\* taking s.mu and reads s.currentStep into its loop variable, whatever an
\* Execute in flight has written to it so far
CompensateCall(t) ==
    /\ pc[t] = "idle"
    /\ calls < MaxCalls
    /\ calls' = calls + 1
    /\ compI' = [compI EXCEPT ![t] = currentStep]
    /\ compensationErrors' = [compensationErrors EXCEPT ![t] = <<>>]
    /\ direct' = [direct EXCEPT ![t] = <<>>]
    /\ pc' = [pc EXCEPT ![t] = "direct"]
    /\ UNCHANGED <<steps, currentStep, mu, stateManager, state, err, errComp,
                   owner, result, log, seen, effects, priorFail, compRet,
                   storeVars>>

\* s.steps[i] with i outside the slice: the runtime panics and, nobody
\* recovering, the program and all its goroutines end
IndexPanic(t) ==
    /\ pc[t] = "direct"
    /\ compI[t] >= steps
    /\ pc' = [u \in Threads |-> "panic"]
    /\ UNCHANGED <<steps, currentStep, mu, stateManager, state, locals,
                   history, storeVars, publicVars>>

\* one iteration of the loop of a direct call: step.ExecuteCompensate(ctx)
CompensateDirectStep(t) ==
    /\ pc[t] = "direct"
    /\ compI[t] >= 0
    /\ compI[t] < steps
    /\ \E ok \in BOOLEAN :
         /\ applied' = [applied EXCEPT ![compI[t]] = FALSE]
         /\ direct' = [direct EXCEPT ![t] = Append(@, compI[t])]
         /\ compensationErrors' =
              [compensationErrors EXCEPT
                 ![t] = IF ok THEN @ ELSE Append(@, CompensateError(compI[t]))]
         /\ compI' = [compI EXCEPT ![t] = NextCompensate(compI[t], ok)]
    /\ UNCHANGED <<steps, currentStep, mu, stateManager, state, pc, err, errComp,
                   owner, result, log, seen, succeeded, rolledBack, priorFail,
                   calls, compRet, storeVars>>

\* the loop of a direct call is over: the client gets the aggregated error
CompensateDirectReturn(t) ==
    /\ pc[t] = "direct"
    /\ compI[t] < 0
    /\ compRet' = CompensateResult(compensationErrors[t])
    /\ compI' = [compI EXCEPT ![t] = 0]
    /\ compensationErrors' = [compensationErrors EXCEPT ![t] = <<>>]
    /\ pc' = [pc EXCEPT ![t] = "idle"]
    /\ UNCHANGED <<steps, currentStep, mu, stateManager, state, err, errComp,
                   history, direct, storeVars>>

NextPublic ==
    \/ \E t \in Threads : ExecuteCall(t)
    \/ \E t \in Threads : Lock(t)
    \/ \E t \in Threads : LoopHead(t)
    \/ \E t \in Threads : Forward(t)
    \/ \E t \in Threads : MarkFailed(t)
    \/ \E t \in Threads : MarkDone(t)
    \/ \E t \in Threads : CompensateStep(t)
    \/ \E t \in Threads : CompensateReturn(t)
    \/ \E t \in Threads : ExecuteFailed(t)
    \/ NewSaga
    \/ \E t \in Threads : CompensateCall(t)
    \/ \E t \in Threads : IndexPanic(t)
    \/ \E t \in Threads : CompensateDirectStep(t)
    \/ \E t \in Threads : CompensateDirectReturn(t)

\* the saga used through its whole interface: Execute and Compensate
SpecPublic == Init /\ [][NextPublic]_vars

\* ------------------------------------------- InMemoryStateManager, in detail
\* NewInMemoryStateManager(): an empty map, used by goroutines directly
InitStore ==
    /\ steps = 0
    /\ currentStep = 0
    /\ mu = 0
    /\ stateManager = "memory"
    /\ state = EmptyMap
    /\ pc = [t \in Threads |-> "idle"]
    /\ NoLocals
    /\ owner = 0
    /\ result = NoCall
    /\ log = <<>>
    /\ seen = {}
    /\ applied = [i \in {} |-> FALSE]
    /\ succeeded = [i \in {} |-> 0]
    /\ rolledBack = [i \in {} |-> 0]
    /\ priorFail = {}
    /\ calls = 0
    /\ StoreIdle
    /\ NoDirect

\* a goroutine calls m.SetStepState(stepIndex, success)
SetStepStateCall(c) ==
    /\ spc[c] = "idle"
    /\ sops < MaxStoreOps
    /\ \E i \in Keys, v \in BOOLEAN : sarg' = [sarg EXCEPT ![c] = [idx |-> i, val |-> v]]
    /\ spc' = [spc EXCEPT ![c] = "wlock"]
    /\ sops' = sops + 1
    /\ UNCHANGED <<sagaVars, publicVars, state, smu, sret, setHist>>

\* m.mu.Lock(): waits for the writer and for every reader to leave
SetStepStateLock(c) ==
    /\ spc[c] = "wlock"
    /\ smu.writer = 0 /\ smu.readers = {}
    /\ smu' = [smu EXCEPT !.writer = c]
    /\ spc' = [spc EXCEPT ![c] = "write"]
    /\ UNCHANGED <<sagaVars, publicVars, state, sarg, sret, setHist, sops>>

\* m.state[stepIndex] = success; return nil; the deferred m.mu.Unlock()
SetStepStateWrite(c) ==
    /\ spc[c] = "write"
    /\ state' = SetStepState(state, sarg[c].idx, sarg[c].val)
    /\ setHist' = Append(setHist, sarg[c])
    /\ smu' = [smu EXCEPT !.writer = 0]
    /\ spc' = [spc EXCEPT ![c] = "idle"]
    /\ UNCHANGED <<sagaVars, publicVars, sarg, sret, sops>>

\* a goroutine calls m.StepState(stepIndex)
StepStateCall(c) ==
    /\ spc[c] = "idle"
    /\ sops < MaxStoreOps
    /\ \E i \in Keys : sarg' = [sarg EXCEPT ![c] = [idx |-> i, val |-> FALSE]]
    /\ spc' = [spc EXCEPT ![c] = "rlock"]
    /\ sops' = sops + 1
    /\ UNCHANGED <<sagaVars, publicVars, state, smu, sret, setHist>>

\* m.mu.RLock(): waits for the writer to leave, readers share the lock
StepStateRLock(c) ==
    /\ spc[c] = "rlock"
    /\ smu.writer = 0
    /\ smu' = [smu EXCEPT !.readers = @ \cup {c}]
    /\ spc' = [spc EXCEPT ![c] = "read"]
    /\ UNCHANGED <<sagaVars, publicVars, state, sarg, sret, setHist, sops>>

\* the lookup, the return, and the deferred m.mu.RUnlock()
StepStateRead(c) ==
    /\ spc[c] = "read"
    /\ sret' = [sret EXCEPT ![c] = [val |-> StepState(state, sarg[c].idx),
                                    at |-> Len(setHist)]]
    /\ smu' = [smu EXCEPT !.readers = @ \ {c}]
    /\ spc' = [spc EXCEPT ![c] = "done"]
    /\ UNCHANGED <<sagaVars, publicVars, state, sarg, setHist, sops>>

\* the caller takes the value StepState returned
StepStateReturn(c) ==
    /\ spc[c] = "done"
    /\ spc' = [spc EXCEPT ![c] = "idle"]
    /\ UNCHANGED <<sagaVars, publicVars, state, smu, sarg, sret, setHist, sops>>

NextStore ==
    \/ \E c \in Clients : SetStepStateCall(c)
    \/ \E c \in Clients : SetStepStateLock(c)
    \/ \E c \in Clients : SetStepStateWrite(c)
    \/ \E c \in Clients : StepStateCall(c)
    \/ \E c \in Clients : StepStateRLock(c)
    \/ \E c \in Clients : StepStateRead(c)
    \/ \E c \in Clients : StepStateReturn(c)

SpecStore == InitStore /\ [][NextStore]_vars

\* ------------------------------------------------- vocabulary of the claims
\* the Execute call the history belongs to has returned
Returned == result \notin {NoCall, Pending}

\* events of one kind in the log of the call
CompEvents == SelectSeq(log, LAMBDA e : e.op = "comp")
FailedComps == SelectSeq(log, LAMBDA e : e.op = "comp" /\ ~e.ok)
Indices(es) == [n \in 1..Len(es) |-> es[n].idx]
InLog(e) == \E n \in 1..Len(log) : log[n] = e
Invoked(op, i) == InLog(Event(op, i, TRUE)) \/ InLog(Event(op, i, FALSE))

\* every store call of the call succeeded
StoreOk == \A n \in 1..Len(log) : log[n].ok \/ log[n].op \in {"fwd", "comp"}

\* a forward action failed during the call; the first such step
ForwardFailed == \E n \in 1..Len(log) : log[n].op = "fwd" /\ ~log[n].ok
FirstFailed ==
    LET n == CHOOSE n \in 1..Len(log) :
                 /\ log[n].op = "fwd" /\ ~log[n].ok
                 /\ \A m \in 1..(n - 1) : ~(log[m].op = "fwd" /\ ~log[m].ok)
    IN log[n].idx

\* <<k, k-1, ..., 0>>
Down(k) == [n \in 1..(k + 1) |-> k + 1 - n]
IsPrefix(a, b) == Len(a) <= Len(b) /\ \A n \in 1..Len(a) : a[n] = b[n]

\* C1 (P2, compensation scope): with store calls succeeding, if step k is the
\* first whose forward action fails, Execute returns an error, the compensating
\* actions invoked are those of k, k-1, ..., 0, each once and in that order,
\* and no action of a step above k is invoked.
C1_CompensationScope ==
    (StoreOk /\ ForwardFailed) =>
        LET k == FirstFailed IN
        /\ \A n \in 1..Len(log) : log[n].op \in {"fwd", "comp"} => log[n].idx <= k
        /\ IsPrefix(Indices(CompEvents), Down(k))
        /\ Returned => /\ result # Nil
                       /\ Indices(CompEvents) = Down(k)

C1_Witness ==
    /\ Returned /\ StoreOk /\ ForwardFailed
    /\ steps >= 3
    /\ FirstFailed = 1
    /\ Indices(CompEvents) = <<1, 0>>
    /\ InLog(Event("fwd", 0, TRUE))

\* C2 as stated (P3 with its second half): after a run that executed steps
\* 0..k-1 and failed at step k, every later Execute call over the same store
\* invokes no forward action below k and invokes the forward action of step k
\* again.  Stated here for calls whose store calls all succeed.
C2_RetryAsStated ==
    \A k \in seen :
        /\ \A i \in 0..(k - 1) : ~Invoked("fwd", i)
        /\ (Returned /\ StoreOk) => Invoked("fwd", k)

\* C2 amended: after a run that executed steps 0..k-1 and failed at step k,
\* every later Execute call over the same store invokes no forward action
\* below k; if its store calls succeed it invokes the forward action of step k
\* again unless step k has been recorded completed in the meantime, in which
\* case it skips step k too.
C2_RetrySkipsCompleted ==
    \A k \in seen :
        /\ \A i \in 0..(k - 1) : ~Invoked("fwd", i)
        /\ (Returned /\ StoreOk) =>
               \/ Invoked("fwd", k)
               \/ /\ StepState(state, k)
                  /\ InLog(Event("get", k, TRUE))
                  /\ ~Invoked("setTrue", k) /\ ~Invoked("setFalse", k)

C2_Witness ==
    /\ Returned /\ StoreOk
    /\ 1 \in seen
    /\ InLog(Event("get", 0, TRUE))
    /\ ~Invoked("fwd", 0)
    /\ InLog(Event("fwd", 1, FALSE))

\* C3 (package doc, all or nothing): with the in-memory store, whenever
\* Execute returns success the forward effect of every step is in place: the
\* step's forward action succeeded and none of its compensating actions was
\* invoked afterwards.
C3_AllOrNothing ==
    (Returned /\ result = Nil /\ stateManager = "memory") =>
        \A i \in 0..(steps - 1) : applied[i]

\* C4 (P1, sequential completion): when every forward action invoked by a call
\* succeeds and its store calls succeed, Execute returns success, invokes no
\* compensating action, and the store reports every step index as completed;
\* a saga with no steps included.
C4_SequentialCompletion ==
    (Returned /\ StoreOk /\ ~ForwardFailed) =>
        /\ result = Nil
        /\ CompEvents = <<>>
        /\ \A i \in 0..(steps - 1) : StepState(state, i)

C4_Witness ==
    /\ Returned /\ result = Nil
    /\ steps >= 2
    /\ \A i \in 0..(steps - 1) : InLog(Event("fwd", i, TRUE))
    /\ \A i \in 0..(steps - 1) : StepState(state, i)

\* the error a compensation pass is expected to return for the failures logged
RECURSIVE Listed(_)
Listed(es) ==
    IF es = <<>> THEN ""
    ELSE CompensateError(es[1].idx) \o (IF Len(es) > 1 THEN " " ELSE "") \o Listed(Tail(es))

\* a goroutine is back in Execute from the Compensate it invoked
Compensated == \E t \in Threads : pc[t] = "compensated"
ErrComp == errComp[CHOOSE t \in Threads : pc[t] = "compensated"]

\* C5 (P4, best-effort compensation): a compensation pass started at index c
\* invokes the compensating action of every step c, c-1, ..., 0 whether or not
\* an earlier one failed; it returns an error exactly when at least one failed,
\* and that error lists every failure, highest index first.
C5_BestEffortCompensation ==
    Compensated =>
        /\ CompEvents # <<>>
        /\ Indices(CompEvents) = Down(CompEvents[1].idx)
        /\ (ErrComp # Nil) <=> (FailedComps # <<>>)
        /\ FailedComps # <<>> =>
             ErrComp = "compensation failed with errors: [" \o Listed(FailedComps) \o "]"

C5_Witness ==
    /\ Compensated
    /\ Indices(CompEvents) = <<2, 1, 0>>
    /\ ~CompEvents[1].ok /\ CompEvents[2].ok /\ ~CompEvents[3].ok
    /\ ErrComp = "compensation failed with errors: [step3 compensate error step1 compensate error]"

\* C6 (P5, state-write fatality): when the store fails to persist a step's
\* outcome, the success record or the not-completed record, Execute returns at
\* once with the state-write error naming that step; no compensating action
\* and no later forward action is invoked.
C6_StateWriteFatal ==
    \A n \in 1..Len(log) :
        (log[n].op \in {"setTrue", "setFalse"} /\ ~log[n].ok) =>
            /\ n = Len(log)
            /\ Returned
            /\ result = "setting state for step " \o Name(log[n].idx)
                            \o ": " \o SetStepStateErr
            /\ CompEvents = <<>>
            /\ \A m \in 1..Len(log) : log[m].op = "fwd" => log[m].idx <= log[n].idx

C6_Witness ==
    /\ Returned
    /\ log = << Event("get", 0, TRUE), Event("fwd", 0, TRUE), Event("setTrue", 0, TRUE),
                Event("get", 1, TRUE), Event("fwd", 1, FALSE), Event("setFalse", 1, FALSE) >>
    /\ result = "setting state for step step2: set step state error"
    /\ steps >= 3

\* the success record is the one that fails to persist
C6_WitnessSuccessRecord ==
    /\ Returned
    /\ log = << Event("get", 0, TRUE), Event("fwd", 0, TRUE), Event("setTrue", 0, FALSE) >>
    /\ result = "setting state for step step1: set step state error"
    /\ steps >= 2

\* a goroutine is inside Execute, past s.mu.Lock()
InFlight(t) == pc[t] \in {"loop", "forward", "markFailed", "markDone",
                          "compensate", "compensated"}

\* C7 (mutual exclusion): at most one Execute, with the Compensate it runs, is
\* in flight on a saga at any time; the goroutine in flight holds s.mu, and
\* every other caller is outside Execute or waiting for the lock.
C7_ExecuteExclusive ==
    \A t \in Threads :
        InFlight(t) =>
            /\ mu = t
            /\ \A u \in Threads \ {t} : pc[u] \in {"idle", "lock"}

C7_Witness ==
    \E t, u \in Threads :
        /\ pc[t] = "compensate" /\ compI[t] = 0 /\ Len(CompEvents) = 1
        /\ pc[u] = "lock"
        /\ mu = t

\* C8 (error outcome of a forward failure): with store writes succeeding, a
\* forward failure makes Execute return an error even when every compensation
\* succeeds: "executing step <name>: <cause>" when the compensation pass
\* succeeded, and "compensating after failure in step <name>: <cause>:
\* compensation failed with errors: [...]" when it failed.
C8_ForwardFailureError ==
    (Returned /\ ForwardFailed /\ StoreOk) =>
        LET k == FirstFailed IN
        /\ result # Nil
        /\ FailedComps = <<>> =>
             result = "executing step " \o Name(k) \o ": " \o ForwardError(k)
        /\ FailedComps # <<>> =>
             result = "compensating after failure in step " \o Name(k) \o ": "
                         \o ForwardError(k) \o ": compensation failed with errors: ["
                         \o Listed(FailedComps) \o "]"

C8_Witness ==
    /\ Returned
    /\ result = "compensating after failure in step step2: step2 error: compensation failed with errors: [step2 compensate error]"
    /\ Indices(CompEvents) = <<1, 0>>

\* every compensation succeeds and Execute still returns the step's error
C8_WitnessCompensated ==
    /\ Returned
    /\ result = "executing step step2: step2 error"
    /\ Indices(CompEvents) = <<1, 0>>
    /\ FailedComps = <<>>

\* C9 (state-read fatality): when the completion query for step i fails,
\* Execute returns at once with the state-read error naming step i; the
\* forward action of step i and of every later step is not invoked, no
\* compensating action is invoked, and nothing is written for step i.
C9_StateReadFatal ==
    \A n \in 1..Len(log) :
        (log[n].op = "get" /\ ~log[n].ok) =>
            LET i == log[n].idx IN
            /\ n = Len(log)
            /\ Returned
            /\ result = "retrieving state for step " \o Name(i) \o ": " \o StepStateErr
            /\ CompEvents = <<>>
            /\ \A m \in 1..Len(log) :
                   /\ log[m].op = "fwd" => log[m].idx < i
                   /\ log[m].op \in {"setTrue", "setFalse"} => log[m].idx # i

C9_Witness ==
    /\ Returned
    /\ InLog(Event("fwd", 0, TRUE))
    /\ InLog(Event("setTrue", 0, TRUE))
    /\ InLog(Event("get", 1, FALSE))
    /\ result = "retrieving state for step step2: step state error"

\* the value most recently written for index i among the first n writes,
\* FALSE when there is none
RECURSIVE LastWritten(_, _)
LastWritten(i, n) ==
    IF n = 0 THEN FALSE
    ELSE IF setHist[n].idx = i THEN setHist[n].val
    ELSE LastWritten(i, n - 1)

\* C10 (in-memory store contract): StepState(i) returns the value of the most
\* recent SetStepState(i, v), a later write overwriting an earlier one, and
\* false for an index never set; a write leaves every other index as it was;
\* this holds with concurrent readers and writers, a writer never being inside
\* the map together with a reader or another writer.
C10_InMemoryStore ==
    /\ \A i \in Keys : StepState(state, i) = LastWritten(i, Len(setHist))
    /\ DOMAIN state = {setHist[n].idx : n \in 1..Len(setHist)}
    /\ \A c \in Clients :
           spc[c] = "done" => sret[c].val = LastWritten(sarg[c].idx, sret[c].at)
    /\ \A c \in Clients :
           spc[c] = "write" => \A d \in Clients \ {c} : spc[d] \notin {"write", "read"}

C10_Witness ==
    \E c \in Clients :
        /\ setHist = << [idx |-> 1, val |-> TRUE], [idx |-> 1, val |-> FALSE] >>
        /\ spc[c] = "done" /\ sarg[c].idx = 1 /\ sret[c] = [val |-> FALSE, at |-> 2]
        /\ StepState(state, 0) = FALSE /\ 0 \notin DOMAIN state

\* C11 (completion-ledger invariant): while an Execute call has returned no
\* error, during the call and after it returned success, the completion record
\* of every index below currentStep is true.
C11_CompletionLedger ==
    result \in {Pending, Nil} =>
        \A i \in 0..(currentStep - 1) : StepState(state, i)

C11_Witness ==
    \E t \in Threads :
        /\ pc[t] = "markFailed" /\ result = Pending
        /\ currentStep = 2
        /\ InLog(Event("get", 0, TRUE)) /\ ~Invoked("fwd", 0)
        /\ InLog(Event("fwd", 1, TRUE))
        /\ StepState(state, 0) /\ StepState(state, 1)

\* the completion query failed during the call
ReadFailed == \E n \in 1..Len(log) : log[n].op = "get" /\ ~log[n].ok
ReadFailedAt == log[CHOOSE n \in 1..Len(log) : log[n].op = "get" /\ ~log[n].ok].idx
FwdLogged == SelectSeq(log, LAMBDA e : e.op = "fwd")

\* C12 as stated: when Execute aborts with a state-read error, no forward
\* action was invoked during that call, at whatever index the query failed.
C12_NoNewWork ==
    ReadFailed => FwdLogged = <<>>

\* C12 amended: when Execute aborts with a state-read error at index i, no
\* forward action of step i or of a later step was invoked during that call;
\* forward actions of steps below i may have been invoked earlier in the call,
\* and each of them succeeded and was recorded as completed; no forward action
\* at all was invoked when i = 0.
C12_ReadErrorWork ==
    ReadFailed =>
        /\ \A n \in 1..Len(FwdLogged) :
               /\ FwdLogged[n].idx < ReadFailedAt
               /\ FwdLogged[n].ok
               /\ InLog(Event("setTrue", FwdLogged[n].idx, TRUE))
               /\ StepState(state, FwdLogged[n].idx)
        /\ ReadFailedAt = 0 => FwdLogged = <<>>

C12_Witness ==
    /\ Returned
    /\ steps >= 3
    /\ log = << Event("get", 0, TRUE), Event("get", 1, TRUE), Event("fwd", 1, TRUE),
                Event("setTrue", 1, TRUE), Event("get", 2, FALSE) >>
    /\ result = "retrieving state for step step3: step state error"
    /\ applied[1]

\* C13 (ordering on forward failure): when the forward action of step k fails,
\* the record of k is set to false before the first compensating action is
\* invoked, and no compensating action is invoked unless that write succeeded.
C13_FailureRecordedFirst ==
    CompEvents # <<>> =>
        /\ ForwardFailed
        /\ \E m \in 1..Len(log) :
               /\ log[m] = Event("setFalse", FirstFailed, TRUE)
               /\ \A n \in 1..Len(log) : log[n].op = "comp" => m < n
        /\ FirstFailed \in DOMAIN state
        /\ ~state[FirstFailed]

C13_Witness ==
    \E t \in Threads :
        /\ pc[t] = "compensate" /\ compI[t] = 0
        /\ log = << Event("get", 0, TRUE), Event("fwd", 0, TRUE), Event("setTrue", 0, TRUE),
                    Event("get", 1, TRUE), Event("fwd", 1, FALSE),
                    Event("setFalse", 1, TRUE), Event("comp", 1, TRUE) >>
        /\ state[1] = FALSE

\* C14 (compensation leaves the ledger alone): a compensation pass makes no
\* store call; during and after the pass that follows a failure at step k the
\* store still reports every step below k as completed and step k as not
\* completed.
C14_CompensationKeepsLedger ==
    CompEvents # <<>> =>
        /\ \A m, n \in 1..Len(log) :
               (log[m].op = "comp" /\ m < n) => log[n].op = "comp"
        /\ ForwardFailed
        /\ ~StepState(state, FirstFailed)
        /\ \A i \in 0..(FirstFailed - 1) : StepState(state, i)

C14_Witness ==
    /\ Returned
    /\ Indices(CompEvents) = <<1, 0>>
    /\ InLog(Event("fwd", 0, TRUE))
    /\ ~applied[0]
    /\ state[0] = TRUE /\ state[1] = FALSE

\* C15 (strictly sequential, no automatic retry): within one Execute call the
\* forward actions are invoked in strictly increasing index order, each at most
\* once; a forward action is invoked only after the previous forward action of
\* the call succeeded and its success record was written; none is invoked after
\* a forward failure.
C15_SequentialNoRetry ==
    \A m, n \in 1..Len(log) :
        (m < n /\ log[m].op = "fwd" /\ log[n].op = "fwd") =>
            /\ log[m].idx < log[n].idx
            /\ log[m].ok
            /\ \E p \in (m + 1)..(n - 1) : log[p] = Event("setTrue", log[m].idx, TRUE)

C15_Witness ==
    /\ Returned
    /\ InLog(Event("get", 0, TRUE)) /\ ~Invoked("fwd", 0)
    /\ Indices(FwdLogged) = <<1, 2>>
    /\ InLog(Event("fwd", 1, TRUE))
    /\ InLog(Event("fwd", 2, FALSE))

\* C16 (guaranteed lock release): given that every step action and store call
\* returns, s.mu is held only by a goroutine inside Execute, never after a
\* return; every Execute call past the lock returns; every call waiting for
\* the lock gets it.
C16_LockReleased ==
    /\ [](mu # 0 => InFlight(mu))
    /\ \A t \in Threads : (pc[t] = "lock") ~> InFlight(t)
    /\ \A t \in Threads : InFlight(t) ~> (pc[t] = "idle" /\ mu # t)

C16_Witness ==
    \E t \in Threads :
        /\ pc[t] = "lock"
        /\ owner # 0 /\ owner # t
        /\ mu = 0
        /\ result = "compensating after failure in step step1: step1 error: compensation failed with errors: [step1 compensate error]"

\* the lock is free again after each of the other return paths
C16_WitnessReturnPaths ==
    \E t \in Threads :
        /\ pc[t] = "lock" /\ owner # 0 /\ owner # t /\ mu = 0
        /\ result \in {Nil, "retrieving state for step step1: step state error",
                       "setting state for step step1: set step state error",
                       "executing step step1: step1 error"}

\* a goroutine is inside Compensate, called by Execute or by the client
InCompensate(t) == pc[t] \in {"compensate", "direct"}

\* C17 (valid step access): whenever Compensate runs, inside Execute or called
\* by the client at any point, the index it uses on the step sequence is
\* within 0 .. len(steps)-1, so no out-of-range access (and no panic) occurs.
C17_ValidStepAccess ==
    /\ \A t \in Threads :
          InCompensate(t) /\ compI[t] >= 0 => compI[t] < steps
    /\ \A t \in Threads : pc[t] # "panic"

\* C20 (Compensate serialised with Execute): while a goroutine is inside
\* Compensate, whoever called it, no other goroutine is inside Execute past
\* the lock, so no compensating action runs and s.currentStep is not read
\* while an Execute of another goroutine is in flight.
C20_CompensateSerialised ==
    \A t \in Threads :
        InCompensate(t) => \A u \in Threads \ {t} : ~InFlight(u)

\* the stronger scenario of C20: a direct call has already invoked a
\* compensating action and an Execute of another goroutine is in flight
C20_DirectInvokedDuringExecute ==
    \E t \in Threads :
        /\ pc[t] = "direct"
        /\ direct[t] # <<>>
        /\ \E u \in Threads \ {t} : InFlight(u)

\* step i was skipped by the call in progress: queried, found completed, passed
Skipped(i) ==
    /\ InLog(Event("get", i, TRUE))
    /\ ~Invoked("fwd", i)
    /\ currentStep > i

\* C18 (forward success at most once): with the in-memory store, whose calls
\* never fail, no step's forward action succeeds twice over any sequence of
\* Execute calls; a completion record that is true stays true, and a forward
\* action is only ever invoked for a step not recorded as completed.
C18_ForwardAtMostOnce ==
    /\ [](stateManager = "memory" =>
             \A i \in DOMAIN succeeded : succeeded[i] <= 1)
    /\ [](stateManager = "memory" =>
             \A t \in Threads :
                 pc[t] = "forward" => ~StepState(state, currentStep))
    /\ [][stateManager = "memory" =>
             \A i \in DOMAIN succeeded :
                 StepState(state, i) => StepState(state', i)]_vars

\* a later call has skipped a step whose forward action succeeded before, and
\* is invoking the step after it
C18_Witness ==
    /\ stateManager = "memory"
    /\ calls >= 2
    /\ \E t \in Threads : pc[t] = "forward" /\ currentStep = 1
    /\ Skipped(0)
    /\ succeeded[0] = 1
    /\ StepState(state, 0)

\* C19 (compensation rolls back only executed work, once): with the in-memory
\* store, over any sequence of Execute calls, a step other than the one whose
\* forward action failed in the call is compensated no more often than its
\* forward action has succeeded.
C19_CompensationMatchesWork ==
    stateManager = "memory" =>
        \A i \in DOMAIN rolledBack : rolledBack[i] <= succeeded[i]

====
